---- MODULE Spec2Model ----
(***************************************************************************)
(* MagicBind (src/magic_bind.py): a proxy around a target object that      *)
(* pre-binds override arguments, and merge_args_better, the argument       *)
(* binder it calls.  The target is the Test instance of the class          *)
(* docstring, with its attribute clble set to the instance itself.         *)
(***************************************************************************)
EXTENDS Integers, Sequences, FiniteSets, TLC

VARIABLES _kwargs, _args, _clble, ctor_kwargs, ctor_args, held, op

vars == <<_kwargs, _args, _clble, ctor_kwargs, ctor_args, held, op>>

(***************************************************************************)
(* Bounds of the explored inputs.                                          *)
(***************************************************************************)
\* named overrides given to the constructor
MaxPrioKwargs == 2
\* positional overrides given to the constructor
MaxPrioArgs == 1
\* named arguments of one call
MaxAddKwargs == 2
\* positional arguments of one call
MaxAddArgs == 2

(***************************************************************************)
(* Names and values.  Every value that enters a call is distinct from      *)
(* every other, so a value identifies the container and the slot it came   *)
(* from.                                                                   *)
(***************************************************************************)
Names == {"x", "y", "z"}

NameIndex(n) == CASE n = "x" -> 0 [] n = "y" -> 1 [] OTHER -> 2

EmptyMap == [n \in {} |-> 0]

Pop(m, k) == [n \in (DOMAIN m) \ {k} |-> m[n]]

Range(s) == {s[i] : i \in DOMAIN s}

Min(a, b) == IF a < b THEN a ELSE b

\* the named overrides a MagicBind may be constructed with
PrioKwargsInputs ==
  {[n \in S |-> 10 + NameIndex(n)] :
     S \in {T \in SUBSET Names : Cardinality(T) <= MaxPrioKwargs}}

\* the positional overrides a MagicBind may be constructed with
PrioArgsInputs == {[i \in 1..k |-> 100 + i] : k \in 0..MaxPrioArgs}

\* the named arguments of a call
AddKwargsInputs ==
  {[n \in S |-> 50 + NameIndex(n)] :
     S \in {T \in SUBSET Names : Cardinality(T) <= MaxAddKwargs}}

\* the positional arguments of a call
AddArgsInputs == {[i \in 1..k |-> 200 + i] : k \in 0..MaxAddArgs}

(***************************************************************************)
(* Attribute values: a record of the value's kind (Meth: bound method,     *)
(* Func: plain function, object: an instance, value: anything that is not  *)
(* callable) and its identity.                                             *)
(***************************************************************************)
Val(k, i) == [kind |-> k, id |-> i]

Unset == Val("unset", "")

NoValue == Val("none", "")

\* the Test instance t the proxy wraps
Target == Val("object", "t")

\* the attributes getattr(t, item) finds
TargetAttrs ==
  {"a", "two_positional", "three_positional", "defaults", "args_kwargs",
   "only_args_kwargs", "static", "__call__", "clble"}

TargetAttr(item) ==
  CASE item = "a" -> Val("value", "100")
    [] item = "static" -> Val("Func", "static")
    [] item = "clble" -> Target
    [] OTHER -> Val("Meth", item)

\* names no object has, and the names only the proxy has
MissingAttrs == {"nope"}

ProxyAttrs == {"_obj", "_kwargs", "_args", "_clble"}

Items == TargetAttrs \cup ProxyAttrs \cup MissingAttrs

\* callable(v) for a value that is neither a method nor a function: Test
\* defines __call__, so its instance is callable
callable(v) == v = Target

\* v.__call__ for a callable instance
call_operator(v) == Val("Meth", "__call__")

\* the proxy's bound __call__, which __getattribute__ hands out
callable_method == Val("Meth", "MagicBind.__call__")

(***************************************************************************)
(* getargspec of the callables of Test.                                    *)
(***************************************************************************)
ArgSpec(a, v, k, d) == [args |-> a, varargs |-> v, keywords |-> k, defaults |-> d]

getargspec(clble) ==
  CASE clble.id = "two_positional" ->
         ArgSpec(<<"self", "x", "y">>, FALSE, FALSE, EmptyMap)
    [] clble.id = "three_positional" ->
         ArgSpec(<<"self", "x", "y", "z">>, FALSE, FALSE, EmptyMap)
    [] clble.id = "defaults" ->
         ArgSpec(<<"self", "x", "y", "z">>, FALSE, FALSE,
                 [n \in {"x", "y", "z"} |-> 1 + NameIndex(n)])
    [] clble.id = "args_kwargs" ->
         ArgSpec(<<"self", "x", "y">>, TRUE, TRUE, EmptyMap)
    [] clble.id = "only_args_kwargs" ->
         ArgSpec(<<"self">>, TRUE, TRUE, EmptyMap)
    [] clble.id = "static" ->
         ArgSpec(<<"x", "y", "z">>, FALSE, FALSE, EmptyMap)
    [] OTHER ->
         ArgSpec(<<"self", "x", "y", "z">>, FALSE, FALSE, [n \in {"z"} |-> 3])

(***************************************************************************)
(* merge_args_better(clble, prio_args, prio_kwargs, add_args, add_kwargs). *)
(* The working state of its loop holds the list being built and the four   *)
(* containers the loop pops from; chosen remembers, for each declared      *)
(* name, the value the loop appended for it.                               *)
(***************************************************************************)
begin_index(clble) == IF clble.kind = "Func" THEN 0 ELSE 1

\* getargspec(clble)[0][begin_index:]
argnames(clble) ==
  SubSeq(getargspec(clble).args, begin_index(clble) + 1,
         Len(getargspec(clble).args))

Take(st, argname, v) ==
  [st EXCEPT !.ok_args = Append(@, v),
             !.chosen = [n \in (DOMAIN @) \cup {argname} |->
                           IF n = argname THEN v ELSE @[n]]]

\* MergeStep with the caller's named argument tried before the named
\* override
MergeStepCallerFirst(st, argname) ==
  IF argname \in DOMAIN st.add_kwargs
    THEN [Take(st, argname, st.add_kwargs[argname])
            EXCEPT !.add_kwargs = Pop(@, argname)]
  ELSE IF argname \in DOMAIN st.prio_kwargs
    THEN [Take(st, argname, st.prio_kwargs[argname])
            EXCEPT !.prio_kwargs = Pop(@, argname)]
  ELSE IF st.prio_args # <<>>
    THEN [Take(st, argname, Head(st.prio_args))
            EXCEPT !.prio_args = Tail(@)]
  ELSE IF st.add_args # <<>>
    THEN [Take(st, argname, Head(st.add_args))
            EXCEPT !.add_args = Tail(@)]
  ELSE st

\* one iteration of the loop over the declared names
MergeStep(st, argname) ==
  IF argname \in DOMAIN st.prio_kwargs
    THEN [Take(st, argname, st.prio_kwargs[argname])
            EXCEPT !.prio_kwargs = Pop(@, argname)]
  ELSE IF argname \in DOMAIN st.add_kwargs
    THEN [Take(st, argname, st.add_kwargs[argname])
            EXCEPT !.add_kwargs = Pop(@, argname)]
  ELSE IF st.prio_args # <<>>
    THEN [Take(st, argname, Head(st.prio_args))
            EXCEPT !.prio_args = Tail(@)]
  ELSE IF st.add_args # <<>>
    THEN [Take(st, argname, Head(st.add_args))
            EXCEPT !.add_args = Tail(@)]
  ELSE st

RECURSIVE MergeLoop(_, _)
MergeLoop(st, names) ==
  IF names = <<>> THEN st
  ELSE MergeLoop(MergeStep(st, Head(names)), Tail(names))

\* What the caller's container holds once the binder has returned, given
\* what it held at the call (orig) and what the binder's local of the same
\* name holds at the end (work).  prio_args, prio_kwargs and add_args are
\* rebound to copies before the loop; add_kwargs is not, so the loop pops
\* from the caller's mapping.
prio_args_after(orig, work) == orig

\* prio_kwargs_after without the deepcopy: the loop pops from the mapping
\* the proxy keeps
prio_kwargs_after_nocopy(orig, work) == work

prio_kwargs_after(orig, work) == orig

add_args_after(orig, work) == orig

add_kwargs_after(orig, work) == work

\* ok_args.extend(chain(prio_args, add_args))
extend_leftovers(ok_args, prio_args, add_args) == ok_args \o prio_args \o add_args

\* final_kwargs that also hands over the named overrides left in the
\* working copy
final_kwargs_with_overrides(clble, prio_kwargs, add_kwargs) ==
  IF getargspec(clble).keywords
    THEN [k \in (DOMAIN prio_kwargs) \cup (DOMAIN add_kwargs) |->
            IF k \in DOMAIN add_kwargs THEN add_kwargs[k] ELSE prio_kwargs[k]]
  ELSE EmptyMap

\* the named arguments handed to the target
final_kwargs(clble, prio_kwargs, add_kwargs) ==
  IF getargspec(clble).keywords THEN add_kwargs ELSE EmptyMap

\* what the binder returns (ok_args, ok_kwargs), with the values its loop
\* chose and the state it leaves the four containers in
MergeResult(clble, prio_args, prio_kwargs, add_args, add_kwargs, st) ==
  [ok_args |-> extend_leftovers(st.ok_args, st.prio_args, st.add_args),
   ok_kwargs |-> final_kwargs(clble, st.prio_kwargs, st.add_kwargs),
   chosen |-> st.chosen,
   after |-> [prio_args |-> prio_args_after(prio_args, st.prio_args),
              prio_kwargs |-> prio_kwargs_after(prio_kwargs, st.prio_kwargs),
              add_args |-> add_args_after(add_args, st.add_args),
              add_kwargs |-> add_kwargs_after(add_kwargs, st.add_kwargs)]]

merge_args_better(clble, prio_args, prio_kwargs, add_args, add_kwargs) ==
  MergeResult(clble, prio_args, prio_kwargs, add_args, add_kwargs,
              MergeLoop([ok_args |-> <<>>, chosen |-> EmptyMap,
                         prio_args |-> prio_args, prio_kwargs |-> prio_kwargs,
                         add_args |-> add_args, add_kwargs |-> add_kwargs],
                        argnames(clble)))

(***************************************************************************)
(* The call of orig_clble with ok_args and ok_kwargs, a Python call.  A    *)
(* bound method receives its instance itself; the positionals fill the     *)
(* remaining parameters in order, the surplus goes to varargs, each named  *)
(* argument fills the parameter of its name or goes to the keywords, and a *)
(* parameter left empty takes its default.  The call raises TypeError when *)
(* there are too many positionals, a parameter gets two values, a name is  *)
(* unexpected, or a parameter without default stays empty.  The functions  *)
(* of Test return what they received, which is the result here.            *)
(***************************************************************************)
Params(clble) ==
  IF clble.kind = "Meth" THEN Tail(getargspec(clble).args)
  ELSE getargspec(clble).args

IndexOf(s, e) == CHOOSE i \in DOMAIN s : s[i] = e

NoResult ==
  [exc |-> "none", reasons |-> {}, bound |-> EmptyMap, star |-> <<>>,
   kw |-> EmptyMap]

Invoke(clble, pos, named) ==
  LET spec == getargspec(clble)
      P == Params(clble)
      n == Len(P)
      filled == Min(n, Len(pos))
      too_many == Len(pos) > n /\ ~spec.varargs
      multiple == {k \in DOMAIN named : \E i \in 1..filled : P[i] = k}
      unexpected ==
        IF spec.keywords THEN {}
        ELSE {k \in DOMAIN named : k \notin Range(P)}
      missing ==
        {P[i] : i \in {j \in 1..n : /\ j > filled
                                    /\ P[j] \notin DOMAIN named
                                    /\ P[j] \notin DOMAIN spec.defaults}}
      reasons ==
        (IF too_many THEN {"too_many"} ELSE {})
          \cup (IF multiple # {} THEN {"multiple_values"} ELSE {})
          \cup (IF unexpected # {} THEN {"unexpected_keyword"} ELSE {})
          \cup (IF missing # {} THEN {"missing"} ELSE {})
  IN IF reasons # {}
       THEN [NoResult EXCEPT !.exc = "TypeError", !.reasons = reasons]
     ELSE [exc |-> "none", reasons |-> {},
           bound |-> [p \in Range(P) |->
                        IF IndexOf(P, p) <= filled THEN pos[IndexOf(P, p)]
                        ELSE IF p \in DOMAIN named THEN named[p]
                        ELSE spec.defaults[p]],
           star |-> SubSeq(pos, n + 1, Len(pos)),
           kw |-> [k \in (DOMAIN named) \ Range(P) |-> named[k]]]

(***************************************************************************)
(* The proxy.  _kwargs, _args and _clble are its fields (_obj is Target    *)
(* throughout); ctor_kwargs and ctor_args are the arguments its            *)
(* constructor was given; held is the attribute whose access returned the  *)
(* callable the program still holds ("" when it holds none); op describes  *)
(* the latest operation on the proxy.                                      *)
(***************************************************************************)
NoMerge ==
  [ok_args |-> <<>>, ok_kwargs |-> EmptyMap, chosen |-> EmptyMap,
   after |-> [prio_args |-> <<>>, prio_kwargs |-> EmptyMap,
              add_args |-> <<>>, add_kwargs |-> EmptyMap]]

NoOp ==
  [kind |-> "none", item |-> "", via |-> "", ret |-> NoValue, exc |-> "none",
   clble |-> Unset, prio_args |-> <<>>, prio_kwargs |-> EmptyMap,
   add_args |-> <<>>, add_kwargs |-> EmptyMap, merged |-> NoMerge,
   res |-> NoResult, bound |-> FALSE, invoked |-> FALSE]

\* MagicBind __init__
Init ==
  /\ ctor_kwargs \in PrioKwargsInputs
  /\ ctor_args \in PrioArgsInputs
  /\ _kwargs = ctor_kwargs
  /\ _args = ctor_args
  /\ _clble = Unset
  /\ held = ""
  /\ op = NoOp

\* super().__getattribute__(item): the attributes of the proxy itself
HasOwn(item) ==
  \/ item \in {"_obj", "_kwargs", "_args"}
  \/ item = "_clble" /\ _clble # Unset

OwnAttr(item) ==
  CASE item = "_obj" -> Target
    [] item = "_clble" -> _clble
    [] OTHER -> Val("value", item)

\* getattribute without its last branch: a value that is not callable is
\* remembered and wrapped like a callable one
getattribute_wrap_all(item) ==
  LET original_attribute ==
        IF item \in TargetAttrs THEN TargetAttr(item) ELSE OwnAttr(item)
  IN IF item \notin TargetAttrs /\ ~HasOwn(item)
       THEN [exc |-> "AttributeError", ret |-> NoValue, clble |-> _clble]
     ELSE IF callable(original_attribute)
       THEN [exc |-> "none", ret |-> callable_method,
             clble |-> call_operator(original_attribute)]
     ELSE [exc |-> "none", ret |-> callable_method,
           clble |-> original_attribute]

\* MagicBind __getattribute__: what the access raises or returns, and the
\* _clble it leaves
getattribute(item) ==
  LET original_attribute ==
        IF item \in TargetAttrs THEN TargetAttr(item) ELSE OwnAttr(item)
  IN IF item \notin TargetAttrs /\ ~HasOwn(item)
       THEN [exc |-> "AttributeError", ret |-> NoValue, clble |-> _clble]
     ELSE IF original_attribute.kind \in {"Meth", "Func"}
       THEN [exc |-> "none", ret |-> callable_method,
             clble |-> original_attribute]
     ELSE IF callable(original_attribute)
       THEN [exc |-> "none", ret |-> callable_method,
             clble |-> call_operator(original_attribute)]
     ELSE [exc |-> "none", ret |-> original_attribute, clble |-> _clble]

\* proxy.item
GetAttribute(item) ==
  LET r == getattribute(item)
  IN /\ _clble' = r.clble
     /\ op' = [NoOp EXCEPT !.kind = "access", !.item = item, !.ret = r.ret,
                           !.exc = r.exc]
     /\ UNCHANGED <<_kwargs, _args, ctor_kwargs, ctor_args, held>>

\* f = proxy.item, where the access returns a callable and the program
\* keeps it in f
HoldAttribute(item) ==
  LET r == getattribute(item)
  IN /\ r.ret = callable_method
     /\ _clble' = r.clble
     /\ op' = [NoOp EXCEPT !.kind = "access", !.item = item, !.ret = r.ret,
                           !.exc = r.exc]
     /\ held' = item
     /\ UNCHANGED <<_kwargs, _args, ctor_kwargs, ctor_args>>

\* the record of a call that reached the target: the callable, the
\* containers given to the binder, what the binder made of them (m) and the
\* outcome of the target's call (r)
CallOutcome(via, args, kwargs, m, r) ==
  [NoOp EXCEPT !.kind = "call", !.via = via, !.clble = _clble,
               !.prio_args = _args, !.prio_kwargs = _kwargs,
               !.add_args = args, !.add_kwargs = kwargs, !.merged = m,
               !.res = r, !.exc = r.exc, !.bound = TRUE, !.invoked = TRUE]

\* return orig_clble(ok_args, ok_kwargs), on what the binder returned (m)
CallRecord(via, args, kwargs, m) ==
  CallOutcome(via, args, kwargs, m, Invoke(_clble, m.ok_args, m.ok_kwargs))

\* MagicBind __call__ with the call's args and kwargs
Call(via, args, kwargs) ==
  IF _clble = Unset
    THEN /\ op' = [NoOp EXCEPT !.kind = "call", !.via = via,
                               !.exc = "AttributeError", !.add_args = args,
                               !.add_kwargs = kwargs]
         /\ UNCHANGED <<_kwargs, _args, _clble, ctor_kwargs, ctor_args, held>>
  ELSE /\ op' = CallRecord(via, args, kwargs,
                         merge_args_better(_clble, _args, _kwargs, args,
                                           kwargs))
       /\ _kwargs' = op'.merged.after.prio_kwargs
       /\ _args' = op'.merged.after.prio_args
       /\ UNCHANGED <<_clble, ctor_kwargs, ctor_args, held>>

\* proxy(...)
CallProxy(args, kwargs) == Call("proxy", args, kwargs)

\* proxy.item(...): the call of the callable an access has just returned
CallReturned(args, kwargs) ==
  /\ op.kind = "access"
  /\ op.ret = callable_method
  /\ Call(op.item, args, kwargs)

\* f(...), f the callable an earlier access of attribute held returned
CallHeld(args, kwargs) == held # "" /\ Call(held, args, kwargs)

Next ==
  \/ \E item \in Items : GetAttribute(item)
  \/ \E args \in AddArgsInputs, kwargs \in AddKwargsInputs :
       CallProxy(args, kwargs)
  \/ \E args \in AddArgsInputs, kwargs \in AddKwargsInputs :
       CallReturned(args, kwargs)

Spec == Init /\ [][Next]_vars

\* the same proxy used by a program that keeps a returned callable for later
NextHeld ==
  \/ \E item \in Items : GetAttribute(item)
  \/ \E item \in Items : HoldAttribute(item)
  \/ \E args \in AddArgsInputs, kwargs \in AddKwargsInputs :
       CallProxy(args, kwargs)
  \/ \E args \in AddArgsInputs, kwargs \in AddKwargsInputs :
       CallHeld(args, kwargs)

SpecHeld == Init /\ [][NextHeld]_vars

(***************************************************************************)
(* Properties.                                                             *)
(***************************************************************************)
\* the latest operation was a call in which the binder ran
BinderRan == op.kind = "call" /\ op.bound

\* the callable a callable attribute of the target stands for
CallableOf(item) ==
  IF TargetAttr(item).kind \in {"Meth", "Func"} THEN TargetAttr(item)
  ELSE call_operator(TargetAttr(item))

\* the parameters of the latest call's callable that receive arguments
Declared == Range(Params(op.clble))

\* C1: a callable obtained by accessing callable attribute m of the target
\* invokes m whenever it is called later, whatever was accessed on the
\* proxy in between.
C1_HeldCallableInvokesItsAttribute ==
  (op.kind = "call" /\ op.via \in TargetAttrs) =>
    /\ op.invoked
    /\ op.clble = CallableOf(op.via)

\* C2: calling the proxy itself, at any point of its life, binds against
\* and invokes the call operator of the target.
C2_ProxyCallInvokesTargetCallOperator ==
  (op.kind = "call" /\ op.via = "proxy") =>
    /\ op.invoked
    /\ op.clble = call_operator(Target)

\* C3: the target receives every value the binder resolved for a declared
\* parameter under that parameter; a parameter with no value from any source
\* takes the target's default, or the call fails for a missing argument.
C3_ResolvedValuesReachTheirParameter ==
  BinderRan =>
    /\ op.exc = "none" =>
         \A p \in Declared :
           IF p \in DOMAIN op.merged.chosen
             THEN op.res.bound[p] = op.merged.chosen[p]
           ELSE /\ p \in DOMAIN getargspec(op.clble).defaults
                /\ op.res.bound[p] = getargspec(op.clble).defaults[p]
    /\ (\E p \in Declared : /\ p \notin DOMAIN op.merged.chosen
                            /\ p \notin DOMAIN getargspec(op.clble).defaults)
         => (op.exc = "TypeError" /\ "missing" \in op.res.reasons)

\* The positional list the binder is to return, in closed form.  A declared
\* name with a named override takes it, one with a caller named argument
\* takes that; the k-th declared name with neither takes the k-th value of
\* pos, the override positionals followed by the caller positionals, if
\* there is one.  What is left of pos follows.
Unnamed(names, pk, ak, i) ==
  Cardinality({j \in 1..i : names[j] \notin (DOMAIN pk) \cup (DOMAIN ak)})

Piece(names, pk, ak, pos, i) ==
  IF names[i] \in DOMAIN pk THEN <<pk[names[i]]>>
  ELSE IF names[i] \in DOMAIN ak THEN <<ak[names[i]]>>
  ELSE IF Unnamed(names, pk, ak, i) <= Len(pos)
    THEN <<pos[Unnamed(names, pk, ak, i)]>>
  ELSE <<>>

RECURSIVE Pieces(_, _, _, _, _)
Pieces(names, pk, ak, pos, i) ==
  IF i = 0 THEN <<>>
  ELSE Pieces(names, pk, ak, pos, i - 1) \o Piece(names, pk, ak, pos, i)

ExpectedPositional(names, pk, ak, pos) ==
  Pieces(names, pk, ak, pos, Len(names))
    \o SubSeq(pos, Min(Unnamed(names, pk, ak, Len(names)), Len(pos)) + 1,
              Len(pos))

C5_OverridesSurviveCalls ==
  /\ _kwargs = ctor_kwargs
  /\ _args = ctor_args
  /\ BinderRan =>
       /\ op.merged.ok_args =
            merge_args_better(op.clble, ctor_args, ctor_kwargs, op.add_args,
                              op.add_kwargs).ok_args
       /\ op.merged.ok_kwargs =
            merge_args_better(op.clble, ctor_args, ctor_kwargs, op.add_args,
                              op.add_kwargs).ok_kwargs

\* a call whose loop consumed a named and a positional override
C5_Witness ==
  /\ BinderRan
  /\ \E n \in DOMAIN op.prio_kwargs :
       n \in DOMAIN op.merged.chosen /\ op.merged.chosen[n] = op.prio_kwargs[n]
  /\ \E n \in DOMAIN op.merged.chosen :
       op.merged.chosen[n] \in Range(op.prio_args)

\* C6: the binder leaves the four containers it was given as they were.
C6_BinderLeavesContainersUnchanged ==
  BinderRan =>
    op.merged.after =
      [prio_args |-> op.prio_args, prio_kwargs |-> op.prio_kwargs,
       add_args |-> op.add_args, add_kwargs |-> op.add_kwargs]

\* the caller's named arguments no declared parameter consumed: a declared
\* name is consumed from the caller unless a named override covers it
Unconsumed ==
  {k \in DOMAIN op.add_kwargs :
     ~(k \in Declared /\ k \notin DOMAIN op.prio_kwargs)}

C8_CollisionRaisesTypeError ==
  (/\ BinderRan
   /\ getargspec(op.clble).keywords
   /\ (DOMAIN op.prio_kwargs) \cap (DOMAIN op.add_kwargs) \cap Declared # {})
    => (op.exc = "TypeError" /\ "multiple_values" \in op.res.reasons)

\* C9: accessing an attribute the target has with a value that is not
\* callable returns the value, and runs neither the binder nor a callable
\* of the target.
C9_NonCallablePassthrough ==
  (/\ op.kind = "access"
   /\ op.item \in TargetAttrs
   /\ TargetAttr(op.item).kind = "value")
    => /\ op.exc = "none"
       /\ op.ret = TargetAttr(op.item)
       /\ ~op.bound
       /\ ~op.invoked

\* the attribute a was read on a proxy that remembers a callable from an
\* earlier access
C9_Witness ==
  /\ op.kind = "access"
  /\ op.item = "a"
  /\ op.ret = Val("value", "100")
  /\ _clble # Unset

\* C10: accessing a name the target lacks gives the proxy's own attribute of
\* that name; when the proxy lacks it too the access raises AttributeError
\* and the proxy's fields stay as they were.
C10_FallbackToProxyAttribute ==
  [][(op'.kind = "access" /\ op'.item \notin TargetAttrs) =>
       IF HasOwn(op'.item)
         THEN op'.exc = "none" /\ op'.ret = OwnAttr(op'.item)
       ELSE /\ op'.exc = "AttributeError"
            /\ UNCHANGED <<_kwargs, _args, _clble>>]_vars

====
